---- MODULE Spec2Model ----
(***************************************************************************)
(* A model of st_build.py, the script that trims third_party, builds       *)
(* webrtc with gn/ninja, packages the build output and extracts the        *)
(* library/define manifest from a generated ninja file.                    *)
(*                                                                         *)
(* Four state machines share the module, one specification each:           *)
(*   SpecTrim / SpecTrimAny  trimThirdParty, step by step, with kills      *)
(*   SpecMain                main: trim, build, package, extract           *)
(*   SpecExtract             extractLibsFromNinjaFile and filterDefines    *)
(*   SpecCopy                copyFiles                                     *)
(* Strings are TLA+ strings handled character by character with SubSeq.    *)
(***************************************************************************)
EXTENDS Integers, Sequences, FiniteSets, TLC

VARIABLES
  \* ---- trimThirdParty
  system,               \* platform.system(): decides mac / windows
  third_party_dir,      \* the three directories: [isdir, entries, partial]
  third_party_old_dir,
  third_party_new_dir,
  tpc,                  \* position inside trimThirdParty
  tidx,                 \* index of the copy loop (BUILD.gn, then libs)
  started,              \* what the current run found on entry (Snapshot)
  original,             \* the directory third_party as first found
  runs,                 \* runs of trimThirdParty started so far
  interrupts,           \* runs killed so far
  \* ---- main
  source_dir,           \* options.source_dir
  version,              \* options.version ("" for None)
  configuration,        \* options.configuration
  platform,             \* options.platform ("" for None)
  out_files,            \* relative paths of the files of a build output directory
  mpc,                  \* position inside main
  bidx,                 \* index into the configurations main builds
  lidx,                 \* index into the buildPackageDirLibs calls of buildPackage
  merged_static_library,\* WebRTCPackager.merged_static_library ("" for None)
  log,                  \* the steps performed so far, each with its inputs and outcome
  exit_status,          \* "running", or the exit status of the process
  \* ---- extractLibsFromNinjaFile
  content,              \* the text of the ninja file
  src_third_party,      \* the files under src/third_party, in walk order
  src_webrtc,           \* the files under src/webrtc, in walk order
  epc,                  \* position inside extractLibsFromNinjaFile
  lines,                \* lines
  aggregated_lines,     \* aggregated_lines
  ninja_libs,           \* the keys of libs
  defs,                 \* the keys of defs
  webrtc_LIBS,          \* what is printed inside set(webrtc_LIBS ...)
  webrtc_DEFS,          \* what is printed inside set(webrtc_DEFS ...)
  unused_defs,          \* what is printed after "Unused defs:"
  \* ---- copyFiles
  src_readable,         \* the relative paths under src_dir that shutil.copy can copy
  src_special,          \* those on which it raises SpecialFileError (named pipes)
  file_list,            \* file_list
  keep_src_path,        \* keep_src_path
  dst_files,            \* the files under dst_dir: [dest, src] for each
  cidx,                 \* index of the loop over file_list
  cpc                   \* position inside copyFiles

trimVars == <<system, third_party_dir, third_party_old_dir, third_party_new_dir,
              tpc, tidx, started, original, runs, interrupts>>

mainVars == <<source_dir, version, configuration, platform, out_files, mpc, bidx, lidx,
              merged_static_library, log, exit_status>>

extractVars == <<content, src_third_party, src_webrtc, epc, lines, aggregated_lines,
                 ninja_libs, defs, webrtc_LIBS, webrtc_DEFS, unused_defs>>

copyVars == <<src_readable, src_special, file_list, keep_src_path, dst_files, cidx, cpc>>

vars == <<trimVars, mainVars, extractVars, copyVars>>

(***************************************************************************)
(* Bounds of the model.                                                    *)
(***************************************************************************)
MaxRuns == 3
MaxInterrupts == 2
MaxLines == 3
MaxTreeFiles == 1
MaxList == 3

(***************************************************************************)
(* trimThirdParty                                                          *)
(***************************************************************************)
Systems == {"Linux", "Darwin", "Windows"}

\* mac = platform.system() == 'Darwin'; windows = platform.system() == 'Windows'
mac == system = "Darwin"
windows == system = "Windows"

BaseLibs == <<"boringssl", "expat", "gflags", "jsoncpp", "libjpeg_turbo", "libsrtp",
              "libvpx", "libyuv", "opus", "protobuf", "usrsctp", "yasm">>

\* libs of trimThirdParty: the base list, extended on mac, appended to on windows
libs == IF mac THEN BaseLibs \o <<"llvm-build", "openmax_dl", "ocmock">>
        ELSE IF windows THEN Append(BaseLibs, "winsdk_samples")
        ELSE BaseLibs

\* What the run copies, in order: BUILD.gn, then every lib
CopyList == <<"BUILD.gn">> \o libs

Range(s) == {s[i] : i \in 1..Len(s)}

Allowed == Range(CopyList)

\* Entries of a third_party checkout that are on no allow-list
Extras == {"android_tools", "ffmpeg"}

\* A directory that does not exist
NoDir == [isdir |-> FALSE, entries |-> {}, partial |-> {}]

\* A directory holding the complete entries es
Dir(es) == [isdir |-> TRUE, entries |-> es, partial |-> {}]

Names(d) == d.entries \cup d.partial

\* What a run finds on entry: third_party and third_party.old as they are, and of
\* third_party.new whether it exists and whether every entry in it is complete
Found(d) == [isdir |-> d.isdir, whole |-> d.partial = {}]
Snapshot == [tp |-> third_party_dir, old |-> third_party_old_dir,
             new |-> Found(third_party_new_dir)]

Running == {"rmtree", "makedirs", "copy", "copying", "rename_old", "finalize"}

\* line 367: not os.path.isdir(third_party_old_dir) and os.path.isdir(third_party_dir)
\* (FreshRunNoOldCheck: the same test without its first half)
FreshRunNoOldCheck == third_party_dir.isdir
FreshRun == ~third_party_old_dir.isdir /\ third_party_dir.isdir

\* Entry of trimThirdParty: lines 364-367
TrimEntry ==
  /\ runs' = runs + 1
  /\ started' = Snapshot
  /\ tpc' = IF FreshRun THEN "rmtree" ELSE "finalize"
  /\ tidx' = 1
  /\ UNCHANGED <<system, third_party_dir, third_party_old_dir, third_party_new_dir,
                 original, interrupts>>

\* A run of trimThirdParty on its own
TrimStart ==
  /\ tpc \in {"idle", "done", "raised"}
  /\ runs < MaxRuns
  /\ TrimEntry
  /\ UNCHANGED <<mainVars, extractVars, copyVars>>

\* line 370: shutil.rmtree(third_party_new_dir, ignore_errors=True), one entry at a
\* time, then the directory itself. rmtree takes the entries in the order of
\* os.listdir, which the file system decides: any entry can be the next one
\* (RmtreeSkip: a run that does not wipe third_party.new)
RmtreeSkip ==
  /\ tpc = "rmtree"
  /\ tpc' = "makedirs"
  /\ UNCHANGED <<system, third_party_dir, third_party_old_dir, third_party_new_dir,
                 tidx, started, original, runs, interrupts>>
  /\ UNCHANGED <<mainVars, extractVars, copyVars>>
RmtreeStep ==
  /\ tpc = "rmtree"
  /\ IF ~third_party_new_dir.isdir
       THEN /\ tpc' = "makedirs"
            /\ UNCHANGED third_party_new_dir
       ELSE IF Names(third_party_new_dir) = {}
         THEN /\ third_party_new_dir' = NoDir
              /\ tpc' = "makedirs"
         ELSE \E n \in Names(third_party_new_dir) :
                /\ third_party_new_dir' =
                     [third_party_new_dir EXCEPT !.entries = @ \ {n}, !.partial = @ \ {n}]
                /\ UNCHANGED tpc
  /\ UNCHANGED <<system, third_party_dir, third_party_old_dir,
                 tidx, started, original, runs, interrupts>>
  /\ UNCHANGED <<mainVars, extractVars, copyVars>>

\* line 371: os.makedirs(third_party_new_dir) raises OSError if it exists
Makedirs ==
  /\ tpc = "makedirs"
  /\ IF third_party_new_dir.isdir
       THEN /\ tpc' = "raised"
            /\ UNCHANGED third_party_new_dir
       ELSE /\ third_party_new_dir' = Dir({})
            /\ tpc' = "copy"
  /\ UNCHANGED <<system, third_party_dir, third_party_old_dir,
                 tidx, started, original, runs, interrupts>>
  /\ UNCHANGED <<mainVars, extractVars, copyVars>>

\* copy (lines 330-335) of CopyList[tidx], begun: a missing source raises, and so
\* does copytree onto a destination that exists; shutil.copy of a file overwrites
CopyBegin ==
  /\ tpc = "copy"
  /\ LET n == CopyList[tidx] IN
     IF n \notin third_party_dir.entries
        \/ (n # "BUILD.gn" /\ n \in Names(third_party_new_dir))
       THEN /\ tpc' = "raised"
            /\ UNCHANGED third_party_new_dir
       ELSE /\ third_party_new_dir' =
                 [third_party_new_dir EXCEPT !.entries = @ \ {n}, !.partial = @ \cup {n}]
            /\ tpc' = "copying"
  /\ UNCHANGED <<system, third_party_dir, third_party_old_dir,
                 tidx, started, original, runs, interrupts>>
  /\ UNCHANGED <<mainVars, extractVars, copyVars>>

\* The source directory after one entry was copied out of it: unchanged
\* (SourceAfterMove: what a move in place of the copy would leave)
SourceAfterMove(n) == [third_party_dir EXCEPT !.entries = @ \ {n}]
SourceAfterCopy(n) == third_party_dir

\* copy of CopyList[tidx], finished; after the last one the loop of lines 374-375 ends
CopyEnd ==
  /\ tpc = "copying"
  /\ LET n == CopyList[tidx] IN
     /\ third_party_new_dir' =
          [third_party_new_dir EXCEPT !.partial = @ \ {n}, !.entries = @ \cup {n}]
     /\ third_party_dir' = SourceAfterCopy(n)
  /\ IF tidx = Len(CopyList)
       THEN tpc' = "rename_old" /\ UNCHANGED tidx
       ELSE tpc' = "copy" /\ tidx' = tidx + 1
  /\ UNCHANGED <<system, third_party_old_dir, started, original, runs, interrupts>>
  /\ UNCHANGED <<mainVars, extractVars, copyVars>>

\* os.rename(src, dst) of directories raises OSError when dst exists, unless dst is
\* an empty directory on a POSIX system
RenameRaises(dst) == dst.isdir /\ (windows \/ Names(dst) # {})

\* line 377: os.rename(third_party_dir, third_party_old_dir)
RenameOld ==
  /\ tpc = "rename_old"
  /\ IF RenameRaises(third_party_old_dir)
       THEN /\ tpc' = "raised"
            /\ UNCHANGED <<third_party_dir, third_party_old_dir>>
       ELSE /\ third_party_old_dir' = third_party_dir
            /\ third_party_dir' = NoDir
            /\ tpc' = "finalize"
  /\ UNCHANGED <<system, third_party_new_dir, tidx, started, original, runs, interrupts>>
  /\ UNCHANGED <<mainVars, extractVars, copyVars>>

\* lines 378-379: if os.path.isdir(third_party_new_dir): os.rename(new, third_party)
\* (FinalizeNoRename: a run that ends without the second rename)
FinalizeNoRename ==
  /\ tpc = "finalize"
  /\ tpc' = "done"
  /\ UNCHANGED <<system, third_party_dir, third_party_old_dir, third_party_new_dir,
                 tidx, started, original, runs, interrupts>>
  /\ UNCHANGED <<mainVars, extractVars, copyVars>>
Finalize ==
  /\ tpc = "finalize"
  /\ IF ~third_party_new_dir.isdir
       THEN /\ tpc' = "done"
            /\ UNCHANGED <<third_party_dir, third_party_new_dir>>
       ELSE IF RenameRaises(third_party_dir)
         THEN /\ tpc' = "raised"
              /\ UNCHANGED <<third_party_dir, third_party_new_dir>>
         ELSE /\ third_party_dir' = third_party_new_dir
              /\ third_party_new_dir' = NoDir
              /\ tpc' = "done"
  /\ UNCHANGED <<system, third_party_old_dir, tidx, started, original, runs, interrupts>>
  /\ UNCHANGED <<mainVars, extractVars, copyVars>>

\* What a kill inside rmtree can leave of the directory d it is removing: d as it
\* is (killed between two entries), or d with one complete entry partly removed
\* (killed within that entry, a directory: the file BUILD.gn goes in one unlink)
KilledInRmtree(d) ==
  {d} \cup {[d EXCEPT !.entries = @ \ {n}, !.partial = @ \cup {n}] :
              n \in d.entries \ {"BUILD.gn"}}

\* The process is killed between two steps of trimThirdParty, or within a step of
\* rmtree
Interrupt ==
  /\ tpc \in Running
  /\ interrupts < MaxInterrupts
  /\ interrupts' = interrupts + 1
  /\ tpc' = "idle"
  /\ IF tpc = "rmtree"
       THEN third_party_new_dir' \in KilledInRmtree(third_party_new_dir)
       ELSE UNCHANGED third_party_new_dir
  /\ UNCHANGED <<system, third_party_dir, third_party_old_dir,
                 tidx, started, original, runs>>
  /\ UNCHANGED <<mainVars, extractVars, copyVars>>

(***************************************************************************)
(* Strings, as Python's str methods compute them                           *)
(***************************************************************************)
Min(S) == CHOOSE x \in S : \A y \in S : x <= y
Max(S) == CHOOSE x \in S : \A y \in S : x >= y

\* s[i-1:j] of Python, for 1-based i and j: out-of-range ends are clamped
Slice(s, i, j) ==
  LET lo == IF i < 1 THEN 1 ELSE i
      hi == IF j > Len(s) THEN Len(s) ELSE j
  IN IF lo > hi THEN "" ELSE SubSeq(s, lo, hi)

\* s.endswith(suf)
EndsWith(s, suf) ==
  Len(s) >= Len(suf) /\ Slice(s, Len(s) - Len(suf) + 1, Len(s)) = suf

\* s.find(sub): the lowest 0-based index at which sub occurs in s, -1 if none
Find(s, sub) ==
  LET hits == {i \in 0..(Len(s) - Len(sub)) : Slice(s, i + 1, i + Len(sub)) = sub}
  IN IF hits = {} THEN -1 ELSE Min(hits)

\* os.path.basename(p): what follows the last "/"
Basename(p) ==
  LET slashes == {i \in 1..Len(p) : Slice(p, i, i) = "/"}
  IN IF slashes = {} THEN p ELSE Slice(p, Max(slashes) + 1, Len(p))

\* os.path.join(a, b) for a relative b
Join(a, b) == a \o "/" \o b

(***************************************************************************)
(* findAllFilesWithExtension                                               *)
(***************************************************************************)
\* A matcher is a suffix string, or the compiled pattern '.*' s '.*' (the only
\* shape of pattern the script compiles: re.compile('.*\.dll.*'))
Suffix(s) == [re |-> FALSE, s |-> s]
Pattern(s) == [re |-> TRUE, s |-> s]

\* What of s comes before its first newline
FirstLine(s) ==
  LET nl == Find(s, "\n") IN IF nl < 0 THEN s ELSE Slice(s, 1, nl)

\* lines 283-287: filename.endswith(ext) for a str, ext.match(filename) otherwise;
\* the match starts at the first character and the dots of '.*' match no newline,
\* so the pattern matches when s occurs before the first newline of filename
Matches(filename, ext) ==
  IF ext.re THEN Find(FirstLine(filename), ext.s) >= 0 ELSE EndsWith(filename, ext.s)

\* The relative paths of the files under a directory whose name matches some
\* matcher; the walk's order is the file system's, so the result is taken as a set
findAllFilesWithExtension(files, exts) ==
  {f \in files : \E i \in 1..Len(exts) : Matches(Basename(f), exts[i])}

(***************************************************************************)
(* main, build, WebRTCPackager.buildPackage                                *)
(***************************************************************************)
Configurations == {"Debug", "Release", "Both"}
Platforms == {"linux-x64", "linux-android-armeabi-v7a", "osx", "win32", "linux-arm"}

\* What a build output directory may hold
OutFileUniverse == {"a.o", "examples/c.o", "example_util/d.o", "a.lib",
                    "examples/b.lib", "libx.so", "x.dll", "nl\n.dll"}

\* lines 409-413: the configurations main builds, in order
BuildConfigs ==
  IF configuration \in {"Debug", "Release"} THEN <<configuration>>
  ELSE <<"Debug", "Release">>

\* lines 126-136: the buildPackageDirLibs calls of buildPackage, in order
LibBuilds ==
  IF configuration \in {"Release", "Debug"}
    THEN <<[configuration |-> configuration, lib_subdir |-> "lib"]>>
    ELSE <<[configuration |-> "Release", lib_subdir |-> "lib"],
           [configuration |-> "Debug", lib_subdir |-> "debug_lib"]>>

\* The platforms on which buildPackageDirLibs merges libraries (lines 68, 80, 89)
MergePlatforms == {"linux-x64", "linux-android-armeabi-v7a", "osx", "win32"}

\* lines 70-71, 82-83, 91: the list handed to the merger
MergeList ==
  IF platform \in {"linux-x64", "linux-android-armeabi-v7a", "osx"}
    THEN {l \in findAllFilesWithExtension(out_files, <<Suffix(".o")>>) :
            Find(l, "example") < 0}
    ELSE findAllFilesWithExtension(out_files, <<Suffix(".lib")>>)

\* lines 75, 84, 92
MergedName == IF platform = "win32" THEN "webrtc_all.lib" ELSE "webrtc_all.a"

\* lines 78, 87, 96, 99: the list handed to copyFiles
CopyLibList ==
  IF platform \in {"linux-x64", "linux-android-armeabi-v7a"}
    THEN findAllFilesWithExtension(out_files, <<Suffix(".so")>>)
  ELSE IF platform = "osx"
    THEN findAllFilesWithExtension(out_files, <<Suffix(".dylib")>>)
  ELSE IF platform = "win32"
    THEN findAllFilesWithExtension(out_files, <<Pattern(".dll"), Suffix(".pdb")>>)
  ELSE findAllFilesWithExtension(out_files,
         <<Suffix(".a"), Suffix(".so"), Suffix(".lib"), Suffix(".dll")>>)

\* Whether the merger ends the process, given the exit code rc of its tool and
\* whether talking to the tool raised:
\* linuxMergeLibraries never looks at the exit code of ar (p.communicate() only
\* waits for it), and ends the process only with the exception of Popen (ar cannot
\* be started) or of a write to the pipe of an ar that is gone already;
\* osxMergeLibraries and winMergeLibraries call sys.exit(1) on a non-zero code
linuxMergeLibrariesExits(rc, raised) == raised
osxMergeLibrariesExits(rc) == rc # 0
winMergeLibrariesExits(rc) == rc # 0

LinuxPlatforms == {"linux-x64", "linux-android-armeabi-v7a"}

MergeExits(rc, raised) ==
  IF platform \in LinuxPlatforms THEN linuxMergeLibrariesExits(rc, raised)
  ELSE IF platform = "osx" THEN osxMergeLibrariesExits(rc)
  ELSE winMergeLibrariesExits(rc)

ExitCodes == {0, 1}

\* lines 398-401: a required option that is missing or empty
SourceDirs == {"", "checkout"}
Versions == {"", "v1"}
OptionMissing == source_dir = "" \/ version = "" \/ platform = ""

\* Whether Popen, or a write to the pipe, can raise in the merger: whether ar is
\* there, and whether it is still reading when the script is written, is not in the
\* hands of the program
MergeRaises == IF platform \in LinuxPlatforms THEN BOOLEAN ELSE {FALSE}

Entry(step, cfg, rc, files) ==
  [step |-> step, configuration |-> cfg, rc |-> rc, files |-> files, raised |-> FALSE]

\* lines 398-401: parser.error ends the process with status 2 before any step
MainOptionError ==
  /\ mpc = "start"
  /\ OptionMissing
  /\ mpc' = "exited"
  /\ exit_status' = "2"
  /\ UNCHANGED <<source_dir, version, configuration, platform, out_files, bidx, lidx,
                 merged_static_library, log>>
  /\ UNCHANGED <<trimVars, extractVars, copyVars>>

\* line 407: main calls trimThirdParty
MainTrim ==
  /\ mpc = "start"
  /\ ~OptionMissing
  /\ TrimEntry
  /\ mpc' = "trim"
  /\ log' = Append(log, Entry("trimThirdParty", "", 0, {}))
  /\ UNCHANGED <<source_dir, version, configuration, platform, out_files, bidx, lidx,
                 merged_static_library, exit_status>>
  /\ UNCHANGED <<extractVars, copyVars>>

\* trimThirdParty returned: lines 409-413 go on to the first build
MainTrimReturned ==
  /\ mpc = "trim"
  /\ tpc = "done"
  /\ mpc' = "gn"
  /\ bidx' = 1
  /\ UNCHANGED <<source_dir, version, configuration, platform, out_files, lidx,
                 merged_static_library, log, exit_status>>
  /\ UNCHANGED <<trimVars, extractVars, copyVars>>

\* trimThirdParty raised: the exception ends the process
MainTrimRaised ==
  /\ mpc = "trim"
  /\ tpc = "raised"
  /\ mpc' = "exited"
  /\ exit_status' = "1"
  /\ UNCHANGED <<source_dir, version, configuration, platform, out_files, bidx, lidx,
                 merged_static_library, log>>
  /\ UNCHANGED <<trimVars, extractVars, copyVars>>

\* lines 323-325: gn gen; a non-zero exit code is exit(1)
\* (GnFailureIgnored: a build that goes on to ninja whatever gn returned)
GnFailureIgnored(rc) == FALSE
BuildGnExits(rc) == rc # 0

BuildGn ==
  /\ mpc = "gn"
  /\ \E rc \in ExitCodes :
       /\ log' = Append(log, Entry("gn", BuildConfigs[bidx], rc, {}))
       /\ IF BuildGnExits(rc)
            THEN mpc' = "exited" /\ exit_status' = "1"
            ELSE mpc' = "ninja" /\ UNCHANGED exit_status
  /\ UNCHANGED <<source_dir, version, configuration, platform, out_files, bidx, lidx,
                 merged_static_library>>
  /\ UNCHANGED <<trimVars, extractVars, copyVars>>

\* lines 327-328: ninja; a non-zero exit code is exit(1); then the next build of
\* lines 409-413, or buildPackage (line 422)
BuildNinja ==
  /\ mpc = "ninja"
  /\ \E rc \in ExitCodes :
       /\ log' = Append(log, Entry("ninja", BuildConfigs[bidx], rc, {}))
       /\ IF rc # 0
            THEN mpc' = "exited" /\ exit_status' = "1" /\ UNCHANGED <<bidx, lidx>>
            ELSE /\ UNCHANGED exit_status
                 /\ IF bidx < Len(BuildConfigs)
                      THEN mpc' = "gn" /\ bidx' = bidx + 1 /\ UNCHANGED lidx
                      ELSE mpc' = "libs" /\ lidx' = 1 /\ UNCHANGED bidx
  /\ UNCHANGED <<source_dir, version, configuration, platform, out_files,
                 merged_static_library>>
  /\ UNCHANGED <<trimVars, extractVars, copyVars>>

\* buildPackageDirLibs on a merging platform, up to the return of the merger
\* (lines 66-76, 81-85, 90-93)
BuildPackageDirLibsMerge ==
  /\ mpc = "libs"
  /\ platform \in MergePlatforms
  /\ merged_static_library' = MergedName
  /\ \E rc \in ExitCodes, raised \in MergeRaises :
       /\ log' = Append(log, [Entry("merge", LibBuilds[lidx].configuration, rc, MergeList)
                                EXCEPT !.raised = raised])
       /\ IF MergeExits(rc, raised)
            THEN mpc' = "exited" /\ exit_status' = "1"
            ELSE mpc' = "copyLibs" /\ UNCHANGED exit_status
  /\ UNCHANGED <<source_dir, version, configuration, platform, out_files, bidx, lidx>>
  /\ UNCHANGED <<trimVars, extractVars, copyVars>>

\* Whether copyFiles can end with an exception it does not catch (line 271 catches
\* IOError only): when some file of the list is one shutil.copy raises anything
\* else on, a named pipe for one
CopyFilesRaises(files) == IF files = {} THEN {FALSE} ELSE BOOLEAN

\* buildPackageDirLibs, the copy of the shared libraries (lines 78-79, 87-88,
\* 96-97), which is all of it on a platform that does not merge (lines 99-101);
\* then the next call, or buildPackageDirSupport
BuildPackageDirLibsCopy ==
  /\ \/ mpc = "copyLibs"
     \/ mpc = "libs" /\ platform \notin MergePlatforms
  /\ \E raised \in CopyFilesRaises(CopyLibList) :
       /\ log' = Append(log, [Entry("copyLibs", LibBuilds[lidx].configuration, 0,
                                    CopyLibList) EXCEPT !.raised = raised])
       /\ IF raised
            THEN mpc' = "exited" /\ exit_status' = "1" /\ UNCHANGED lidx
            ELSE /\ UNCHANGED exit_status
                 /\ IF lidx < Len(LibBuilds)
                      THEN mpc' = "libs" /\ lidx' = lidx + 1
                      ELSE mpc' = "support" /\ UNCHANGED lidx
  /\ UNCHANGED <<source_dir, version, configuration, platform, out_files, bidx,
                 merged_static_library>>
  /\ UNCHANGED <<trimVars, extractVars, copyVars>>

\* buildPackageDirSupport (lines 104-115): headers and licenses, copied with
\* copyFiles from the source tree, whose files the program does not choose
BuildPackageDirSupport ==
  /\ mpc = "support"
  /\ \E raised \in BOOLEAN :
       /\ log' = Append(log, [Entry("support", "", 0, {}) EXCEPT !.raised = raised])
       /\ IF raised
            THEN mpc' = "exited" /\ exit_status' = "1"
            ELSE mpc' = "archive" /\ UNCHANGED exit_status
  /\ UNCHANGED <<source_dir, version, configuration, platform, out_files, bidx, lidx,
                 merged_static_library>>
  /\ UNCHANGED <<trimVars, extractVars, copyVars>>

\* makePackageArchive (lines 118-122): cmake -E tar; a non-zero exit code is sys.exit(1)
MakePackageArchive ==
  /\ mpc = "archive"
  /\ \E rc \in ExitCodes :
       /\ log' = Append(log, Entry("archive", "", rc, {}))
       /\ IF rc # 0
            THEN mpc' = "exited" /\ exit_status' = "1"
            ELSE mpc' = "extract" /\ UNCHANGED exit_status
  /\ UNCHANGED <<source_dir, version, configuration, platform, out_files, bidx, lidx,
                 merged_static_library>>
  /\ UNCHANGED <<trimVars, extractVars, copyVars>>

\* line 423: extractLibsFromNinjaFile, after which main returns; open (line 170)
\* raises, and the process ends with status 1, when the ninja file is missing
MainExtract ==
  /\ mpc = "extract"
  /\ \E rc \in ExitCodes :
       /\ log' = Append(log, Entry("extract", "", rc, {}))
       /\ exit_status' = IF rc = 0 THEN "0" ELSE "1"
  /\ mpc' = "exited"
  /\ UNCHANGED <<source_dir, version, configuration, platform, out_files, bidx, lidx,
                 merged_static_library>>
  /\ UNCHANGED <<trimVars, extractVars, copyVars>>

(***************************************************************************)
(* WebRTCPackager.extractLibsFromNinjaFile and filterDefines               *)
(***************************************************************************)
\* What \s of Python's re matches (space, \t, \n, \r, \f and the vertical tab
\* \v, written here as the character itself), and what \w matches
WhiteSpace == {" ", "\t", "\n", "\r", "\f", ""}
WordChars ==
  {"a", "b", "c", "d", "e", "f", "g", "h", "i", "j", "k", "l", "m", "n", "o", "p", "q",
   "r", "s", "t", "u", "v", "w", "x", "y", "z", "A", "B", "C", "D", "E", "F", "G", "H",
   "I", "J", "K", "L", "M", "N", "O", "P", "Q", "R", "S", "T", "U", "V", "W", "X", "Y",
   "Z", "0", "1", "2", "3", "4", "5", "6", "7", "8", "9", "_"}

Char(s, i) == Slice(s, i, i)

\* s.split(sep) for a one-character sep
RECURSIVE Split(_, _)
Split(s, sep) ==
  LET i == Find(s, sep)
  IN IF i < 0 THEN <<s>>
     ELSE <<Slice(s, 1, i)>> \o Split(Slice(s, i + 2, Len(s)), sep)

\* The loop of lines 175-184 from line i on; what it leaves in aggregated_lines
RECURSIVE AggregateLoop(_, _, _, _, _)
AggregateLoop(ls, i, agg, acc, merge_next) ==
  IF i > Len(ls) THEN agg
  ELSE LET l == ls[i]
           l1 == IF EndsWith(l, "$") THEN Slice(l, 1, Len(l) - 1) ELSE l
       IN AggregateLoop(ls, i + 1,
                        IF merge_next THEN agg ELSE Append(agg, acc),
                        IF merge_next THEN acc \o l1 ELSE l1,
                        EndsWith(l, "$"))

\* lines 172-184: aggregated_lines = [], acc = "", merge_next = False, then the loop
AggregateLines(ls) == AggregateLoop(ls, 1, <<>>, "", FALSE)

Extensions == <<".lib", ".dll", ".a", ".so">>

\* lines 189-196: every space-separated part of a raw line that ends in an extension
ExtractLibs(ls) ==
  {p \in UNION {Range(Split(ls[i], " ")) : i \in 1..Len(ls)} :
     \E k \in 1..Len(Extensions) : EndsWith(p, Extensions[k])}

\* The first index from i on that holds no white space (Len(s) + 1 if none)
SkipWs(s, i) == Min({j \in i..(Len(s) + 1) : j = Len(s) + 1 \/ Char(s, j) \notin WhiteSpace})

\* s consists of white space only: re.match('^\s*$', s)
IsBlank(s) == SkipWs(s, 1) = Len(s) + 1

\* re.match('\s*defines\s*=\s*(.*)', l): whether it matches, and its group 1
MatchDefines(l) ==
  LET a == SkipWs(l, 1)
      b == SkipWs(l, a + 7)
      c == SkipWs(l, b + 1)
  IN IF Slice(l, a, a + 6) = "defines" /\ b <= Len(l) /\ Char(l, b) = "="
       THEN [ok |-> TRUE, group |-> Slice(l, c, Len(l))]
       ELSE [ok |-> FALSE, group |-> ""]

\* lines 199-205: the keys of defs
ExtractDefs(agg) ==
  UNION {IF MatchDefines(agg[i]).ok
           THEN {f \in Range(Split(MatchDefines(agg[i]).group, " ")) : ~IsBlank(f)}
           ELSE {} : i \in 1..Len(agg)}

\* re.sub('-D(\w+).*', '\\1', d): the leftmost -D that a word follows is replaced,
\* with all that follows it, by that word
BareName(d) ==
  LET starts == {i \in 1..(Len(d) - 2) :
                   Slice(d, i, i + 1) = "-D" /\ Char(d, i + 2) \in WordChars}
  IN IF starts = {} THEN d
     ELSE LET i == Min(starts)
              e == Max({j \in (i + 2)..Len(d) :
                          \A k \in (i + 2)..j : Char(d, k) \in WordChars})
          IN Slice(d, 1, i - 1) \o Slice(d, i + 2, e)

EmptyDict == [n \in {} |-> ""]

\* line 216: the dicts { name: d } the comprehension can build over the names ns;
\* of two defines with one name, the one met last in the dict's order stays
RECURSIVE DictsOver(_, _)
DictsOver(ns, ds) ==
  IF ns = {} THEN {EmptyDict}
  ELSE LET n == CHOOSE x \in ns : TRUE
       IN {[m \in DOMAIN f \cup {n} |-> IF m = n THEN d ELSE f[m]] :
             f \in DictsOver(ns \ {n}, ds), d \in {e \in ds : BareName(e) = n}}

DefNameDicts(ds) == DictsOver({BareName(d) : d \in ds}, ds)

\* filterDefines (lines 142-155) from file i of the walk on: tofind and used at the end
RECURSIVE filterDefines(_, _, _, _)
filterDefines(files, i, tofind, used) ==
  IF i > Len(files) THEN [tofind |-> tofind, used |-> used]
  ELSE IF ~files[i].readable THEN filterDefines(files, i + 1, tofind, used)
  ELSE LET found == {d \in DOMAIN tofind : Find(files[i].content, d) >= 0}
       IN filterDefines(files, i + 1,
                        [d \in DOMAIN tofind \ found |-> tofind[d]],
                        [d \in DOMAIN used \cup found |->
                           IF d \in found THEN tofind[d] ELSE used[d]])

\* What "Unused defs:" is followed by (line 225): defs itself
UnusedDefsPrinted(ds, tofind) == ds

\* lines 170-185
ExtractRead ==
  /\ epc = "start"
  /\ lines' = Split(content, "\n")
  /\ aggregated_lines' = AggregateLines(Split(content, "\n"))
  /\ epc' = "aggregated"
  /\ UNCHANGED <<content, src_third_party, src_webrtc, ninja_libs, defs, webrtc_LIBS,
                 webrtc_DEFS, unused_defs>>
  /\ UNCHANGED <<trimVars, mainVars, copyVars>>

\* lines 187-205
ExtractScan ==
  /\ epc = "aggregated"
  /\ ninja_libs' = ExtractLibs(lines)
  /\ defs' = ExtractDefs(aggregated_lines)
  /\ epc' = "scanned"
  /\ UNCHANGED <<content, src_third_party, src_webrtc, lines, aggregated_lines,
                 webrtc_LIBS, webrtc_DEFS, unused_defs>>
  /\ UNCHANGED <<trimVars, mainVars, copyVars>>

\* lines 207-225
ExtractPrint ==
  /\ epc = "scanned"
  /\ webrtc_LIBS' = IF merged_static_library # "" THEN {merged_static_library}
                    ELSE ninja_libs
  /\ \E def_names \in DefNameDicts(defs) :
       LET r1 == filterDefines(src_third_party, 1, def_names, EmptyDict)
           r2 == filterDefines(src_webrtc, 1, r1.tofind, r1.used)
       IN /\ webrtc_DEFS' = {r2.used[x] : x \in DOMAIN r2.used}
          /\ unused_defs' = UnusedDefsPrinted(defs, r2.tofind)
  /\ epc' = "done"
  /\ UNCHANGED <<content, src_third_party, src_webrtc, lines, aggregated_lines,
                 ninja_libs, defs>>
  /\ UNCHANGED <<trimVars, mainVars, copyVars>>

(***************************************************************************)
(* copyFiles                                                               *)
(***************************************************************************)
dst_dir == "pkg/lib"

\* lines 259-262
Dest(fname) ==
  IF keep_src_path THEN Join(dst_dir, fname) ELSE Join(dst_dir, Basename(fname))

\* What shutil.copy(full_fname, dest) does: copies, raises SpecialFileError on a
\* named pipe, or raises IOError on any other source it cannot read
CopyOutcome(fname) ==
  IF fname \in src_readable THEN "ok"
  ELSE IF fname \in src_special THEN "SpecialFileError"
  ELSE "IOError"

\* line 271: except IOError, which SpecialFileError (an EnvironmentError) is not
Caught(exc) == exc = "IOError"

\* One turn of the loop of lines 258-274
CopyFilesStep ==
  /\ cpc = "copying"
  /\ cidx <= Len(file_list)
  /\ LET fname == file_list[cidx]
         outcome == CopyOutcome(fname)
     IN IF outcome = "ok"
          THEN /\ dst_files' = {e \in dst_files : e.dest # Dest(fname)}
                                 \cup {[dest |-> Dest(fname), src |-> fname]}
               /\ cidx' = cidx + 1
               /\ UNCHANGED cpc
          ELSE IF Caught(outcome)
            THEN /\ cidx' = cidx + 1
                 /\ UNCHANGED <<dst_files, cpc>>
            ELSE /\ cpc' = "raised"
                 /\ UNCHANGED <<dst_files, cidx>>
  /\ UNCHANGED <<src_readable, src_special, file_list, keep_src_path>>
  /\ UNCHANGED <<trimVars, mainVars, extractVars>>

\* The loop is over: copyFiles returns
CopyFilesReturn ==
  /\ cpc = "copying"
  /\ cidx > Len(file_list)
  /\ cpc' = "done"
  /\ UNCHANGED <<src_readable, src_special, file_list, keep_src_path, dst_files, cidx>>
  /\ UNCHANGED <<trimVars, mainVars, extractVars>>

(***************************************************************************)
(* Initial states and specifications                                       *)
(***************************************************************************)
\* The parts of the script a specification leaves alone
TrimIdle ==
  /\ system = "Linux"
  /\ third_party_dir = Dir(Allowed \cup Extras)
  /\ third_party_old_dir = NoDir
  /\ third_party_new_dir = NoDir
  /\ tpc = "idle"
  /\ tidx = 1
  /\ started = Snapshot
  /\ original = third_party_dir
  /\ runs = 0
  /\ interrupts = 0

MainIdle ==
  /\ source_dir = "checkout"
  /\ version = "v1"
  /\ configuration = "Both"
  /\ platform = "linux-x64"
  /\ out_files = {}
  /\ mpc = "idle"
  /\ bidx = 1
  /\ lidx = 1
  /\ merged_static_library = ""
  /\ log = <<>>
  /\ exit_status = "running"

ExtractIdle ==
  /\ content = ""
  /\ src_third_party = <<>>
  /\ src_webrtc = <<>>
  /\ epc = "idle"
  /\ lines = <<>>
  /\ aggregated_lines = <<>>
  /\ ninja_libs = {}
  /\ defs = {}
  /\ webrtc_LIBS = {}
  /\ webrtc_DEFS = {}
  /\ unused_defs = {}

CopyIdle ==
  /\ src_readable = {}
  /\ src_special = {}
  /\ file_list = <<>>
  /\ keep_src_path = TRUE
  /\ dst_files = {}
  /\ cidx = 1
  /\ cpc = "idle"

\* ---- trimThirdParty, run and killed any number of times
TrimNext ==
  \/ TrimStart
  \/ RmtreeStep
  \/ Makedirs
  \/ CopyBegin
  \/ CopyEnd
  \/ RenameOld
  \/ Finalize
  \/ Interrupt

\* Only third_party exists, untrimmed: BUILD.gn, every allow-listed entry, and more
TrimInit ==
  /\ system \in Systems
  /\ third_party_dir = Dir(Allowed \cup Extras)
  /\ third_party_old_dir = NoDir
  /\ third_party_new_dir = NoDir
  /\ tpc = "idle"
  /\ tidx = 1
  /\ started = Snapshot
  /\ original = third_party_dir
  /\ runs = 0
  /\ interrupts = 0
  /\ MainIdle /\ ExtractIdle /\ CopyIdle

\* What an interrupted copy leaves in third_party.new: the first k entries, the
\* last of them possibly partial
Prefix(k) == {CopyList[i] : i \in 1..k}
StaleNew == {NoDir} \cup {Dir(Prefix(k)) : k \in 0..Len(CopyList)}
              \cup {[isdir |-> TRUE, entries |-> Prefix(k - 1), partial |-> {CopyList[k]}] :
                      k \in 1..Len(CopyList)}

\* Any combination of the three directories in which third_party exists with all
\* the allow-listed entries: trimmed or not, beside an earlier third_party.old or not
TrimAnyInit ==
  /\ system \in Systems
  /\ \E x \in SUBSET Extras : third_party_dir = Dir(Allowed \cup x)
  /\ third_party_old_dir \in {NoDir, Dir(Allowed \cup Extras)}
  /\ third_party_new_dir \in StaleNew
  /\ tpc = "idle"
  /\ tidx = 1
  /\ started = Snapshot
  /\ original = third_party_dir
  /\ runs = 0
  /\ interrupts = 0
  /\ MainIdle /\ ExtractIdle /\ CopyIdle

\* ---- trimThirdParty, run to its end any number of times
TrimRunNext ==
  \/ TrimStart
  \/ RmtreeStep
  \/ Makedirs
  \/ CopyBegin
  \/ CopyEnd
  \/ RenameOld
  \/ Finalize

SpecTrim == TrimInit /\ [][TrimNext]_vars
SpecTrimAny == TrimAnyInit /\ [][TrimRunNext]_vars

\* ---- main
MainInit ==
  /\ system \in Systems
  /\ \/ /\ third_party_dir = Dir(Allowed \cup Extras)
        /\ third_party_old_dir = NoDir
        /\ third_party_new_dir = NoDir
     \/ /\ third_party_dir = Dir(Allowed)
        /\ third_party_old_dir = Dir(Allowed \cup Extras)
        /\ third_party_new_dir = NoDir
     \/ /\ third_party_dir = Dir(Allowed \cup Extras)
        /\ third_party_old_dir = Dir(Allowed \cup Extras)
        /\ third_party_new_dir = Dir(Allowed)
  /\ tpc = "idle"
  /\ tidx = 1
  /\ started = Snapshot
  /\ original = third_party_dir
  /\ runs = 0
  /\ interrupts = 0
  /\ source_dir \in SourceDirs
  /\ version \in Versions
  /\ configuration \in Configurations
  /\ platform \in Platforms \cup {""}
  /\ out_files \in SUBSET OutFileUniverse
  /\ mpc = "start"
  /\ bidx = 1
  /\ lidx = 1
  /\ merged_static_library = ""
  /\ log = <<>>
  /\ exit_status = "running"
  /\ ExtractIdle /\ CopyIdle

MainNext ==
  \/ MainOptionError
  \/ MainTrim
  \/ RmtreeStep
  \/ Makedirs
  \/ CopyBegin
  \/ CopyEnd
  \/ RenameOld
  \/ Finalize
  \/ MainTrimReturned
  \/ MainTrimRaised
  \/ BuildGn
  \/ BuildNinja
  \/ BuildPackageDirLibsMerge
  \/ BuildPackageDirLibsCopy
  \/ BuildPackageDirSupport
  \/ MakePackageArchive
  \/ MainExtract

SpecMain == MainInit /\ [][MainNext]_vars

\* ---- extractLibsFromNinjaFile
LineChoices == {"defines = -DFOO -DBAR=1 $", " -DBAZ", "defines = -DFOO -DBAR=1 -DBAZ",
                "libs = obj/libx.a -lfoo.so", "defines = -DFOO  -DBAZ", ""}

FileChoices == {[readable |-> TRUE, content |-> "#ifdef FOO\nint BAZ;\n"],
                [readable |-> TRUE, content |-> "#if defined(FOO)"],
                [readable |-> TRUE, content |-> "int BAZ = 1;"],
                [readable |-> FALSE, content |-> "#define BAR"]}

SeqsUpTo(S, n) == UNION {[1..k -> S] : k \in 0..n}

RECURSIVE JoinLines(_)
JoinLines(ls) ==
  IF Len(ls) = 0 THEN ""
  ELSE IF Len(ls) = 1 THEN ls[1]
  ELSE ls[1] \o "\n" \o JoinLines(Tail(ls))

ExtractInit ==
  /\ \E ls \in SeqsUpTo(LineChoices, MaxLines), nl \in BOOLEAN :
       /\ Len(ls) > 0
       /\ content = JoinLines(ls) \o (IF nl THEN "\n" ELSE "")
  /\ src_third_party \in SeqsUpTo(FileChoices, MaxTreeFiles)
  /\ src_webrtc \in SeqsUpTo(FileChoices, MaxTreeFiles)
  /\ epc = "start"
  /\ lines = <<>>
  /\ aggregated_lines = <<>>
  /\ ninja_libs = {}
  /\ defs = {}
  /\ webrtc_LIBS = {}
  /\ webrtc_DEFS = {}
  /\ unused_defs = {}
  /\ source_dir = "checkout"
  /\ version = "v1"
  /\ configuration = "Release"
  /\ platform = "linux-x64"
  /\ out_files = {}
  /\ mpc = "idle"
  /\ bidx = 1
  /\ lidx = 1
  /\ merged_static_library \in {"", "webrtc_all.a"}
  /\ log = <<>>
  /\ exit_status = "running"
  /\ TrimIdle /\ CopyIdle

ExtractNext ==
  \/ ExtractRead
  \/ ExtractScan
  \/ ExtractPrint

SpecExtract == ExtractInit /\ [][ExtractNext]_vars

\* ---- copyFiles
CopyUniverse == {"a/x.so", "b/x.so", "y.so", "a/z.h"}

\* Lists as findAllFilesWithExtension returns them: no path twice
CopyLists == {l \in SeqsUpTo(CopyUniverse, MaxList) :
                \A i, j \in 1..Len(l) : l[i] = l[j] => i = j}

CopyInit ==
  /\ src_readable \in SUBSET CopyUniverse
  /\ src_special \in SUBSET (CopyUniverse \ src_readable)
  /\ file_list \in CopyLists
  /\ keep_src_path \in BOOLEAN
  /\ dst_files = {}
  /\ cidx = 1
  /\ cpc = "copying"
  /\ TrimIdle /\ MainIdle /\ ExtractIdle

CopyNext ==
  \/ CopyFilesStep
  \/ CopyFilesReturn

SpecCopy == CopyInit /\ [][CopyNext]_vars

(***************************************************************************)
(* The claims                                                              *)
(***************************************************************************)
Last(s) == s[Len(s)]

\* C1: on every merging platform, a non-zero exit code of the archiver tool ends
\* the process at once with exit status 1: the merge is the last step performed.
C1_MergeFailureIsFatal ==
  \A i \in 1..Len(log) :
    (log[i].step = "merge" /\ log[i].rc # 0) => (i = Len(log) /\ exit_status = "1")

\* The third_party a completed trim leaves: BUILD.gn and the allow-listed entries
Trimmed(d) == d.isdir /\ d.entries = Allowed /\ d.partial = {}

\* C2: from an untrimmed third_party alone, through any kills, no run of
\* trimThirdParty raises, and a run that returns leaves third_party with exactly
\* BUILD.gn and the allow-listed entries and no third_party.new.
C2_ResumeCompletes ==
  /\ tpc # "raised"
  /\ tpc = "done" => (Trimmed(third_party_dir) /\ ~third_party_new_dir.isdir)

\* A run killed twice, the second time between the two renames, and run again
C2_Witness ==
  /\ tpc = "done"
  /\ interrupts >= 2
  /\ started.old.isdir /\ ~started.tp.isdir /\ started.new.isdir
  /\ Trimmed(third_party_dir)

\* The state a completed run leaves, as the current run found it
StartedCompleted ==
  Trimmed(started.tp) /\ started.old.isdir /\ ~started.new.isdir

\* C3: a run started right after a completed one changes none of the three
\* directories and raises nothing.
C3_SecondRunChangesNothing ==
  StartedCompleted => (Snapshot = started /\ tpc # "raised")

\* A second run after a completed one, returned
C3_Witness ==
  StartedCompleted /\ tpc = "done" /\ runs >= 2 /\ Snapshot = started

\* The starting states C4 is about: third_party exists with BUILD.gn and all the
\* allow-listed entries
StartedWithAllowed == started.tp.isdir /\ Allowed \subseteq started.tp.entries

\* C4 as stated: from every such start, whatever else exists, a run that returns
\* leaves third_party with only BUILD.gn and the allow-listed entries.
C4_AlwaysTrimmed ==
  (tpc = "done" /\ StartedWithAllowed) => Trimmed(third_party_dir)

\* C4 amended: the same, for the starts in which third_party.old is absent or
\* third_party is trimmed already.
C4_TrimmedUnlessOldBesideUntrimmed ==
  (tpc = "done" /\ StartedWithAllowed
     /\ (~started.old.isdir \/ Trimmed(started.tp)))
  => Trimmed(third_party_dir)

\* A run that found an untrimmed third_party beside a half-filled third_party.new
C4_Witness ==
  /\ tpc = "done"
  /\ ~started.old.isdir
  /\ started.new.isdir /\ ~started.new.whole
  /\ Extras \subseteq started.tp.entries
  /\ Trimmed(third_party_dir)

\* What the claims C5 and C9 expect of the reassembly: each maximal group of
\* lines ending in $ plus the line after them is one logical line, the
\* concatenation of the group without the $ markers
StripMarker(l) == IF EndsWith(l, "$") THEN Slice(l, 1, Len(l) - 1) ELSE l

RECURSIVE ConcatStripped(_)
ConcatStripped(ls) ==
  IF Len(ls) = 0 THEN "" ELSE StripMarker(ls[1]) \o ConcatStripped(Tail(ls))

RECURSIVE LogicalLines(_)
LogicalLines(ls) ==
  IF Len(ls) = 0 THEN <<>>
  ELSE LET stops == {i \in 1..Len(ls) : ~EndsWith(ls[i], "$")}
           k == IF stops = {} THEN Len(ls) ELSE Min(stops)
       IN <<ConcatStripped(SubSeq(ls, 1, k))>> \o LogicalLines(SubSeq(ls, k + 1, Len(ls)))

NonEmptyLines(ls) == SelectSeq(ls, LAMBDA l : l # "")

\* A bare name occurs in the content of some readable file of the two trees
NameOccurs(n) ==
  \E files \in {src_third_party, src_webrtc} :
    \E i \in 1..Len(files) : files[i].readable /\ Find(files[i].content, n) >= 0

\* C5: of the candidate defines collected from the defines lines, the used list
\* holds exactly those whose bare name occurs in some file, and the list reported
\* as unused holds exactly the others.
C5_UsedAndUnusedPartition ==
  epc = "done" =>
    LET used == {d \in defs : NameOccurs(BareName(d))}
    IN webrtc_DEFS = used /\ unused_defs = defs \ used

\* C6: copyFiles never raises, and once it returned exactly N - K files
\* exist under dst_dir, each copyable file at its expected path.
Copyable == {i \in 1..Len(file_list) : file_list[i] \in src_readable}
Dests == {e.dest : e \in dst_files}

C6_ExactlyNMinusK ==
  /\ cpc # "raised"
  /\ cpc = "done" =>
       /\ Cardinality(Dests) = Cardinality(Copyable)
       /\ \A i \in Copyable : Dest(file_list[i]) \in Dests

\* C7: on every merging platform the list handed to the merger is exactly the
\* collected object or library files whose path does not contain "examples".
C7_MergeListExcludesExactlyExamples ==
  \A i \in 1..Len(log) :
    log[i].step = "merge" =>
      log[i].files =
        {f \in findAllFilesWithExtension(out_files,
                 IF platform = "win32" THEN <<Suffix(".lib")>> ELSE <<Suffix(".o")>>) :
           Find(f, "examples") < 0}

\* C8: the steps come in the order Trimmer, Build Driver (Debug before Release),
\* Packager, Extractor; the Packager starts only after every build succeeded and
\* the Extractor only after the archive was made; a non-zero exit code of gn or
\* ninja is the last step of the run, which ends with exit status 1.
Rank(step) ==
  IF step = "trimThirdParty" THEN 1
  ELSE IF step \in {"gn", "ninja"} THEN 2
  ELSE IF step \in {"merge", "copyLibs", "support", "archive"} THEN 3
  ELSE 4

ExpectedBuilds ==
  IF configuration \in {"Debug", "Release"}
    THEN <<<<"gn", configuration>>, <<"ninja", configuration>>>>
    ELSE <<<<"gn", "Debug">>, <<"ninja", "Debug">>, <<"gn", "Release">>,
           <<"ninja", "Release">>>>

BuildsDone == SelectSeq(log, LAMBDA e : e.step \in {"gn", "ninja"})

C8_OrderAndBuildFailure ==
  /\ log # <<>> => log[1].step = "trimThirdParty"
  /\ \A i, j \in 1..Len(log) : i < j => Rank(log[i].step) <= Rank(log[j].step)
  /\ Len(BuildsDone) <= Len(ExpectedBuilds)
  /\ \A i \in 1..Len(BuildsDone) :
       <<BuildsDone[i].step, BuildsDone[i].configuration>> = ExpectedBuilds[i]
  /\ (\E i \in 1..Len(log) : Rank(log[i].step) >= 3) =>
       /\ Len(BuildsDone) = Len(ExpectedBuilds)
       /\ \A i \in 1..Len(BuildsDone) : BuildsDone[i].rc = 0
  /\ (\E i \in 1..Len(log) : log[i].step = "extract") =>
       (\E i \in 1..Len(log) : log[i].step = "archive" /\ log[i].rc = 0)
  /\ \A i \in 1..Len(log) :
       (log[i].step \in {"gn", "ninja"} /\ log[i].rc # 0) =>
         (i = Len(log) /\ exit_status = "1")

\* Both configurations asked for, Debug built, gn gen for Release failed
C8_Witness ==
  /\ configuration = "Both"
  /\ Len(log) = 4
  /\ Last(log).step = "gn" /\ Last(log).configuration = "Release" /\ Last(log).rc # 0
  /\ exit_status = "1"

\* C9: the reassembly yields the logical lines, the last group of the file
\* included; empty logical lines aside, which carry no content.
C9_EveryLineInOneLogicalLine ==
  epc \in {"aggregated", "scanned", "done"} =>
    NonEmptyLines(aggregated_lines) = NonEmptyLines(LogicalLines(lines))

\* C10: the original contents are whole under third_party or under
\* third_party.old in every state, and no step changes a third_party.old that
\* exists.
HasOriginal ==
  \/ third_party_dir = original
  \/ third_party_old_dir = original

C10_OriginalKept ==
  /\ []HasOriginal
  /\ [][third_party_old_dir.isdir => third_party_old_dir' = third_party_old_dir]_vars

\* A trimmed third_party beside the original in third_party.old, runs after it
C10_Witness ==
  /\ third_party_old_dir = original
  /\ Trimmed(third_party_dir)
  /\ third_party_dir # original
  /\ interrupts >= 1
  /\ runs >= 3

====
